---- MODULE Spec2Model ----
(***************************************************************************)
(* Model of tabled's Rotate table option (src/features/rotate.rs).         *)
(*                                                                         *)
(* Rotate::change rewrites the records of a table in place, using only the *)
(* structural primitives of papergrid's Resizable records: push_row,       *)
(* push_column, swap, swap_row, swap_column, remove_row, remove_column.    *)
(* Every primitive call of change is one step of the model, so that the    *)
(* intermediate grids and the arguments of every call are observable.      *)
(*                                                                         *)
(* A grid is a record [rows, cols, cell], cell a function over the         *)
(* positions <<row, col>> with 0-based indices.  Cells are opaque: the     *)
(* cells of the initial grid carry pairwise distinct identities 1, 2, ...  *)
(* and a cell created by push_row / push_column is Pad.                    *)
(***************************************************************************)
EXTENDS Integers, Sequences, FiniteSets

\* ------------------------------------------------------------------ bounds
MaxDim == 4      \* initial grids have 0..MaxDim rows and 0..MaxDim columns
MaxCalls == 2    \* number of successive calls of change on one table

\* --------------------------------------------------------------- constants
Pad == 0         \* the empty cell a push_row / push_column creates

Directions == {"Left", "Right", "Top", "Bottom"}

VARIABLES
    records,      \* table.get_records_mut(): the grid being rewritten
    pc,           \* position of the running call of change ("idle": none)
    self,         \* the Rotate variant change was called on
    count_rows,   \* local of change: table.shape().0
    count_cols,   \* local of change: table.shape().1
    col,          \* loop variable `col` (outer variable of the transpose)
    row,          \* loop variable `row`
    shift,        \* enumerate() counter of the removal loops
    hist,         \* history: the variants change was called with, in order
    before,       \* history: the grid at the start of each call
    lastOp,       \* history: the latest primitive call of the running call
    calls         \* history: number of primitive calls of the running call

vars == <<records, pc, self, count_rows, count_cols, col, row, shift,
          hist, before, lastOp, calls>>

\* ------------------------------------------------------------ the records
Positions(nr, nc) == (0 .. nr - 1) \X (0 .. nc - 1)

\* Records::count_rows / count_columns as seen through Table::shape
shape(rec) == <<rec.rows, rec.cols>>

\* The grid of nr rows and nc columns holding nr * nc distinct cells.
NewGrid(nr, nc) ==
    [rows |-> nr, cols |-> nc,
     cell |-> [p \in Positions(nr, nc) |-> p[1] * nc + p[2] + 1]]

push_row(rec) ==
    [rows |-> rec.rows + 1, cols |-> rec.cols,
     cell |-> [p \in Positions(rec.rows + 1, rec.cols) |->
                  IF p[1] < rec.rows THEN rec.cell[p] ELSE Pad]]

push_column(rec) ==
    [rows |-> rec.rows, cols |-> rec.cols + 1,
     cell |-> [p \in Positions(rec.rows, rec.cols + 1) |->
                  IF p[2] < rec.cols THEN rec.cell[p] ELSE Pad]]

swap(rec, lhs, rhs) ==
    [rec EXCEPT !.cell = [p \in DOMAIN rec.cell |->
                             IF p = lhs THEN rec.cell[rhs]
                             ELSE IF p = rhs THEN rec.cell[lhs]
                             ELSE rec.cell[p]]]

swap_row(rec, lhs, rhs) ==
    [rec EXCEPT !.cell = [p \in DOMAIN rec.cell |->
                             IF p[1] = lhs THEN rec.cell[<<rhs, p[2]>>]
                             ELSE IF p[1] = rhs THEN rec.cell[<<lhs, p[2]>>]
                             ELSE rec.cell[p]]]

swap_column(rec, lhs, rhs) ==
    [rec EXCEPT !.cell = [p \in DOMAIN rec.cell |->
                             IF p[2] = lhs THEN rec.cell[<<p[1], rhs>>]
                             ELSE IF p[2] = rhs THEN rec.cell[<<p[1], lhs>>]
                             ELSE rec.cell[p]]]

remove_row(rec, r) ==
    [rows |-> rec.rows - 1, cols |-> rec.cols,
     cell |-> [p \in Positions(rec.rows - 1, rec.cols) |->
                  IF p[1] < r THEN rec.cell[p]
                  ELSE rec.cell[<<p[1] + 1, p[2]>>]]]

remove_column(rec, c) ==
    [rows |-> rec.rows, cols |-> rec.cols - 1,
     cell |-> [p \in Positions(rec.rows, rec.cols - 1) |->
                  IF p[2] < c THEN rec.cell[p]
                  ELSE rec.cell[<<p[1], p[2] + 1>>]]]

\* ------------------------------------------------------ primitive calls
\* A call is a record: the primitive's name and its arguments (a position
\* is r1,c1 / r2,c2; a row or column index is r1 / r2 or c1 / c2).
NoOp == [name |-> "none", r1 |-> 0, c1 |-> 0, r2 |-> 0, c2 |-> 0,
         rows |-> 0, cols |-> 0, removed |-> {}]

Op(nm, a1, b1, a2, b2) ==
    [name |-> nm, r1 |-> a1, c1 |-> b1, r2 |-> a2, c2 |-> b2,
     rows |-> 0, cols |-> 0, removed |-> {}]

\* The primitives index vectors: an index outside the grid panics (an index
\* is a usize, so a subtraction that goes below 0 panics or wraps to an
\* index beyond every grid).
Defined(rec, op) ==
    CASE op.name = "swap" ->
            /\ <<op.r1, op.c1>> \in DOMAIN rec.cell
            /\ <<op.r2, op.c2>> \in DOMAIN rec.cell
      [] op.name = "swap_row" ->
            op.r1 \in 0 .. rec.rows - 1 /\ op.r2 \in 0 .. rec.rows - 1
      [] op.name = "swap_column" ->
            op.c1 \in 0 .. rec.cols - 1 /\ op.c2 \in 0 .. rec.cols - 1
      [] op.name = "remove_row"    -> op.r1 \in 0 .. rec.rows - 1
      [] op.name = "remove_column" -> op.c1 \in 0 .. rec.cols - 1
      [] OTHER -> TRUE

Exec(rec, op) ==
    CASE op.name = "push_row"      -> push_row(rec)
      [] op.name = "push_column"   -> push_column(rec)
      [] op.name = "swap" -> swap(rec, <<op.r1, op.c1>>, <<op.r2, op.c2>>)
      [] op.name = "swap_row"      -> swap_row(rec, op.r1, op.r2)
      [] op.name = "swap_column"   -> swap_column(rec, op.c1, op.c2)
      [] op.name = "remove_row"    -> remove_row(rec, op.r1)
      [] op.name = "remove_column" -> remove_column(rec, op.c1)

\* The cells a removal deletes (empty for the other primitives).
Removed(rec, op) ==
    CASE op.name = "remove_row" ->
            {rec.cell[p] : p \in {q \in DOMAIN rec.cell : q[1] = op.r1}}
      [] op.name = "remove_column" ->
            {rec.cell[p] : p \in {q \in DOMAIN rec.cell : q[2] = op.c1}}
      [] OTHER -> {}

Kind(op) ==
    CASE op.name \in {"push_row", "push_column"}     -> "append"
      [] op.name \in {"remove_row", "remove_column"} -> "remove"
      [] op.name = "swap"                            -> "swap"
      [] OTHER                                       -> "swap_line"

NoCalls == [append |-> 0, remove |-> 0, swap |-> 0, swap_line |-> 0]

\* One primitive call on the records: it is recorded with the shape of the
\* grid at the moment of the call; then it either takes effect or panics.
Call(op) ==
    /\ lastOp' = [op EXCEPT !.rows = records.rows, !.cols = records.cols,
                            !.removed = IF Defined(records, op)
                                        THEN Removed(records, op) ELSE {}]
    /\ calls' = [calls EXCEPT ![Kind(op)] = @ + 1]
    /\ IF Defined(records, op)
       THEN records' = Exec(records, op) /\ pc' = pc
       ELSE records' = records /\ pc' = "panic"

\* ------------------------------------------------ expressions of change
\* let n = std::cmp::max(count_rows, count_cols);
max(a, b) == IF a >= b THEN a ELSE b

\* for row in 0..count_cols / 2  (Left)
LeftMirrorCountAlt(cr, cc) == cr \div 2
LeftMirrorCount(cr, cc) == cc \div 2

\* for col in 0..count_rows / 2  (Right)
RightMirrorCount(cr, cc) == cr \div 2

\* for (shift, row) in (count_rows..n).enumerate(): the first `row`
ColumnStripFirstAlt(cr, cc) == cc
ColumnStripFirst(cr, cc) == cr

\* let row = row - shift;
ShiftedAlt(idx, sh) == idx
Shifted(idx, sh) == idx - sh

\* for row in 0..count_rows / 2  (Bottom)
FlipCountAlt(cr) == (cr + 1) \div 2
FlipCount(cr) == cr \div 2

\* let last_row = count_rows - row - 1;
LastRowAlt(cr, r) == cr - 1
LastRow(cr, r) == cr - r - 1

\* ------------------------------------------------------------- the steps
Init ==
    /\ \E nr \in 0 .. MaxDim, nc \in 0 .. MaxDim : records = NewGrid(nr, nc)
    /\ pc = "idle"
    /\ self = "none"
    /\ count_rows = 0 /\ count_cols = 0
    /\ col = 0 /\ row = 0 /\ shift = 0
    /\ hist = <<>>
    /\ before = <<>>
    /\ lastOp = NoOp
    /\ calls = NoCalls

\* change returns to its caller
Return ==
    /\ pc' = "idle"
    /\ UNCHANGED <<records, lastOp, calls>>

\* fn change(&mut self, table): read the shape, take the records, match self
Change(d) ==
    /\ pc = "idle"
    /\ Len(hist) < MaxCalls
    /\ self' = d
    /\ hist' = Append(hist, d)
    /\ before' = Append(before, records)
    /\ count_rows' = shape(records)[1]
    /\ count_cols' = shape(records)[2]
    /\ pc' = CASE d \in {"Left", "Right"} -> "pad_rows"
               [] d = "Bottom"            -> "bottom"
               [] d = "Top"               -> "top"
    /\ row' = IF d \in {"Left", "Right"} THEN shape(records)[1] ELSE 0
    /\ col' = 0 /\ shift' = 0
    /\ lastOp' = NoOp
    /\ calls' = NoCalls
    /\ UNCHANGED records

\* for _ in count_rows..n { records.push_row(); }
PadRows ==
    /\ pc = "pad_rows"
    /\ IF row < max(count_rows, count_cols)
       THEN /\ Call(Op("push_row", 0, 0, 0, 0))
            /\ row' = row + 1
            /\ col' = col
       ELSE /\ pc' = "pad_cols"
            /\ col' = count_cols
            /\ UNCHANGED <<records, lastOp, calls, row>>
    /\ UNCHANGED <<self, count_rows, count_cols, shift, hist, before>>

\* for _ in count_cols..n { records.push_column(); }
PadCols ==
    /\ pc = "pad_cols"
    /\ IF col < max(count_rows, count_cols)
       THEN /\ Call(Op("push_column", 0, 0, 0, 0))
            /\ col' = col + 1
            /\ row' = row
       ELSE /\ pc' = "transpose"
            /\ col' = 0
            /\ row' = 0
            /\ UNCHANGED <<records, lastOp, calls>>
    /\ UNCHANGED <<self, count_rows, count_cols, shift, hist, before>>

\* for col in 0..count_cols { for row in col..count_rows {
\*     records.swap((col, row), (row, col)); } }
Transpose ==
    /\ pc = "transpose"
    /\ IF col < count_cols
       THEN IF row < count_rows
            THEN /\ Call(Op("swap", col, row, row, col))
                 /\ row' = row + 1
                 /\ col' = col
            ELSE /\ col' = col + 1
                 /\ row' = col + 1
                 /\ UNCHANGED <<records, lastOp, calls, pc>>
       ELSE /\ pc' = IF self = "Left" THEN "mirror_left" ELSE "mirror_right"
            /\ row' = 0
            /\ col' = 0
            /\ UNCHANGED <<records, lastOp, calls>>
    /\ UNCHANGED <<self, count_rows, count_cols, shift, hist, before>>

\* Left: for row in 0..count_cols / 2 {
\*     records.swap_row(row, count_cols - row - 1); }
MirrorLeft ==
    /\ pc = "mirror_left"
    /\ IF row < LeftMirrorCount(count_rows, count_cols)
       THEN /\ Call(Op("swap_row", row, 0, count_cols - row - 1, 0))
            /\ row' = row + 1
            /\ shift' = shift
       ELSE /\ pc' = "strip_cols"
            /\ row' = ColumnStripFirst(count_rows, count_cols)
            /\ shift' = 0
            /\ UNCHANGED <<records, lastOp, calls>>
    /\ UNCHANGED <<self, count_rows, count_cols, col, hist, before>>

\* Right: for col in 0..count_rows / 2 {
\*     records.swap_column(col, count_rows - col - 1); }
MirrorRight ==
    /\ pc = "mirror_right"
    /\ IF col < RightMirrorCount(count_rows, count_cols)
       THEN /\ Call(Op("swap_column", 0, col, 0, count_rows - col - 1))
            /\ col' = col + 1
            /\ UNCHANGED <<row, shift>>
       ELSE /\ pc' = "strip_cols"
            /\ row' = ColumnStripFirst(count_rows, count_cols)
            /\ shift' = 0
            /\ col' = col
            /\ UNCHANGED <<records, lastOp, calls>>
    /\ UNCHANGED <<self, count_rows, count_cols, hist, before>>

\* for (shift, row) in (count_rows..n).enumerate() {
\*     let row = row - shift; records.remove_column(row); }
StripCols ==
    /\ pc = "strip_cols"
    /\ IF row < max(count_rows, count_cols)
       THEN /\ Call(Op("remove_column", 0, Shifted(row, shift), 0, 0))
            /\ row' = row + 1
            /\ shift' = shift + 1
            /\ col' = col
       ELSE /\ pc' = "strip_rows"
            /\ col' = count_cols
            /\ shift' = 0
            /\ UNCHANGED <<records, lastOp, calls, row>>
    /\ UNCHANGED <<self, count_rows, count_cols, hist, before>>

\* for (shift, col) in (count_cols..n).enumerate() {
\*     let col = col - shift; records.remove_row(col); }
StripRows ==
    /\ pc = "strip_rows"
    /\ IF col < max(count_rows, count_cols)
       THEN /\ Call(Op("remove_row", Shifted(col, shift), 0, 0, 0))
            /\ col' = col + 1
            /\ shift' = shift + 1
       ELSE /\ Return
            /\ UNCHANGED <<col, shift>>
    /\ UNCHANGED <<self, count_rows, count_cols, row, hist, before>>

\* Self::Bottom: for row in 0..count_rows / 2 { for col in 0..count_cols {
\*     let last_row = count_rows - row - 1;
\*     records.swap((last_row, col), (row, col)); } }
Bottom ==
    /\ pc = "bottom"
    /\ IF row < FlipCount(count_rows)
       THEN IF col < count_cols
            THEN /\ Call(Op("swap", LastRow(count_rows, row), col, row, col))
                 /\ col' = col + 1
                 /\ row' = row
            ELSE /\ row' = row + 1
                 /\ col' = 0
                 /\ UNCHANGED <<records, lastOp, calls, pc>>
       ELSE /\ Return
            /\ UNCHANGED <<row, col>>
    /\ UNCHANGED <<self, count_rows, count_cols, shift, hist, before>>

\* Self::Top => Self::Bottom.change(table): a nested call of change, which
\* reads the shape again and runs the Bottom arm.
Top ==
    /\ pc = "top"
    /\ count_rows' = shape(records)[1]
    /\ count_cols' = shape(records)[2]
    /\ pc' = "bottom"
    /\ UNCHANGED <<records, self, col, row, shift, hist, before, lastOp,
                   calls>>

Next ==
    \/ \E d \in Directions : Change(d)
    \/ PadRows
    \/ PadCols
    \/ Transpose
    \/ MirrorLeft
    \/ MirrorRight
    \/ StripCols
    \/ StripRows
    \/ Bottom
    \/ Top

Spec == Init /\ [][Next]_vars

\* ------------------------------------------------------------ properties
\* A call of change has returned.
Returned == pc = "idle" /\ hist # <<>>

\* The grid the running (or latest) call started from.
start == before[Len(before)]

\* The grid two calls back, and the two latest variants.
TwoCalls(d1, d2) ==
    /\ pc = "idle"
    /\ Len(hist) >= 2
    /\ hist[Len(hist) - 1] = d1
    /\ hist[Len(hist)] = d2

\* C1: when change returns, the shape of the grid is (C, R) for Left and
\* Right and (R, C) for Top and Bottom, for every original shape (R, C),
\* R = 0 and C = 0 included.
C1_ResultShape ==
    Returned =>
        shape(records) = IF self \in {"Left", "Right"}
                         THEN <<start.cols, start.rows>>
                         ELSE <<start.rows, start.cols>>

\* A Right rotation of a grid with no rows and two columns has returned.
C1_Witness ==
    /\ Returned
    /\ self = "Right"
    /\ shape(start) = <<0, 2>>
    /\ shape(records) = <<2, 0>>
    /\ calls.remove = 2

\* C2: after Left the grid has C rows and R columns and the cell at (i, j)
\* is the original cell old[j][C - 1 - i], for every shape (R, C).
C2_LeftFormula ==
    (Returned /\ self = "Left") =>
        /\ shape(records) = <<start.cols, start.rows>>
        /\ \A i \in 0 .. start.cols - 1, j \in 0 .. start.rows - 1 :
              records.cell[<<i, j>>] = start.cell[<<j, start.cols - 1 - i>>]

\* C3: after Right the grid has C rows and R columns and the cell at (i, j)
\* is the original cell old[R - 1 - j][i], for every shape (R, C).
C3_RightFormula ==
    (Returned /\ self = "Right") =>
        /\ shape(records) = <<start.cols, start.rows>>
        /\ \A i \in 0 .. start.cols - 1, j \in 0 .. start.rows - 1 :
              records.cell[<<i, j>>] = start.cell[<<start.rows - 1 - j, i>>]

\* The vertical flip of a grid: new[i][j] = old[R - 1 - i][j].
Flipped(g) ==
    [rows |-> g.rows, cols |-> g.cols,
     cell |-> [p \in Positions(g.rows, g.cols) |->
                  g.cell[<<g.rows - 1 - p[1], p[2]>>]]]

\* C4: Top and Bottom produce the identical grid, the one of shape (R, C)
\* whose cell at (i, j) is the original cell old[R - 1 - i][j].
C4_TopBottomFlip ==
    (Returned /\ self \in {"Top", "Bottom"}) => records = Flipped(start)

\* A Top call has returned on a grid of four rows, after eight swaps.
C4_Witness ==
    /\ Returned
    /\ self = "Top"
    /\ shape(start) = <<4, 4>>
    /\ calls.swap = 8
    /\ records # start

\* C5: Left and Right are mutual inverses: Left then Right, and Right then
\* Left, give back the grid the first of the two calls started from.
C5_LeftRightInverse ==
    (TwoCalls("Left", "Right") \/ TwoCalls("Right", "Left")) =>
        records = before[Len(before) - 1]

\* C6: Bottom applied twice restores the grid exactly.
C6_BottomTwice ==
    TwoCalls("Bottom", "Bottom") => records = before[Len(before) - 1]

\* Two Bottom calls have returned on a grid of four rows, and the grid
\* between them differed from the original.
C6_Witness ==
    /\ TwoCalls("Bottom", "Bottom")
    /\ shape(before[1]) = <<4, 2>>
    /\ before[2] # before[1]
    /\ calls.swap = 4

\* C7: every primitive call is in range against the shape of the grid at
\* the moment of the call.
C7_CallsInRange ==
    /\ pc # "panic"
    /\ lastOp.name = "swap" =>
          /\ lastOp.r1 \in 0 .. lastOp.rows - 1
          /\ lastOp.c1 \in 0 .. lastOp.cols - 1
          /\ lastOp.r2 \in 0 .. lastOp.rows - 1
          /\ lastOp.c2 \in 0 .. lastOp.cols - 1
    /\ lastOp.name = "swap_row" =>
          /\ lastOp.r1 \in 0 .. lastOp.rows - 1
          /\ lastOp.r2 \in 0 .. lastOp.rows - 1
    /\ lastOp.name = "swap_column" =>
          /\ lastOp.c1 \in 0 .. lastOp.cols - 1
          /\ lastOp.c2 \in 0 .. lastOp.cols - 1
    /\ lastOp.name = "remove_row" => lastOp.r1 \in 0 .. lastOp.rows - 1
    /\ lastOp.name = "remove_column" => lastOp.c1 \in 0 .. lastOp.cols - 1

\* The second removal of a column in a rotation of a grid of one row and
\* three columns: the index is shifted back to 1.
C7_Witness ==
    /\ hist # <<>>
    /\ shape(start) = <<1, 3>>
    /\ lastOp.name = "remove_column"
    /\ calls.remove = 2
    /\ lastOp.c1 = 1
    /\ lastOp.cols = 2

\* The cells of a grid, as a set.
Cells(g) == {g.cell[p] : p \in DOMAIN g.cell}

\* C8: after any sequence of calls the grid holds each of the R * C
\* original cells exactly once and no padding cell, and every row and
\* column a call removes consists of padding cells only.
C8_CellsPreserved ==
    /\ Returned =>
          /\ Cells(records) = Cells(before[1])
          /\ records.rows * records.cols = before[1].rows * before[1].cols
          /\ Pad \notin Cells(records)
    /\ lastOp.removed \subseteq {Pad}

\* C9: when R = 0 or C = 0 a call invokes no append, remove or swap
\* primitive, whatever the direction.
C9_NoPrimitiveOnDegenerate ==
    (hist # <<>> /\ (start.rows = 0 \/ start.cols = 0)) => calls = NoCalls

\* C9 as amended: when R = 0 or C = 0 no single-cell swap is ever invoked,
\* Top and Bottom invoke no primitive at all, and a Left or Right that has
\* returned has appended max(R, C) rows or columns, removed as many, and
\* swapped C / 2 rows (Left) or R / 2 columns (Right).
C9_DegenerateCalls ==
    (hist # <<>> /\ (start.rows = 0 \/ start.cols = 0)) =>
        /\ calls.swap = 0
        /\ self \in {"Top", "Bottom"} => calls = NoCalls
        /\ (Returned /\ self \in {"Left", "Right"}) =>
              /\ calls.append = max(start.rows, start.cols)
              /\ calls.remove = max(start.rows, start.cols)
              /\ calls.swap_line = IF self = "Left"
                                   THEN start.cols \div 2
                                   ELSE start.rows \div 2

\* A Left rotation of a grid with no rows and two columns has returned: it
\* appended two rows, swapped them and removed two columns.
C9_Witness ==
    /\ Returned
    /\ self = "Left"
    /\ shape(start) = <<0, 2>>
    /\ calls = [append |-> 2, remove |-> 2, swap |-> 0, swap_line |-> 1]

\* C10: in a Top or Bottom call on a grid with odd R no swap touches the
\* middle row (R - 1) / 2, and every cell of that row stays in place in
\* every intermediate state and in the result.
C10_MiddleRowUntouched ==
    (hist # <<>> /\ self \in {"Top", "Bottom"} /\ start.rows % 2 = 1) =>
        /\ lastOp.name = "swap" =>
              /\ lastOp.r1 # (start.rows - 1) \div 2
              /\ lastOp.r2 # (start.rows - 1) \div 2
        /\ \A j \in 0 .. start.cols - 1 :
              records.cell[<<(start.rows - 1) \div 2, j>>]
                  = start.cell[<<(start.rows - 1) \div 2, j>>]

\* A Bottom call on a grid of three rows is past its last swap.
C10_Witness ==
    /\ hist # <<>>
    /\ self = "Bottom"
    /\ shape(start) = <<3, 2>>
    /\ lastOp.name = "swap"
    /\ calls.swap = 2
    /\ records.cell[<<0, 0>>] = start.cell[<<2, 0>>]

====
